---- MODULE Spec2Model ----
(***************************************************************************)
(* Products router of the catalog API (src/app/routers/products.py).       *)
(*                                                                         *)
(* The two tables are sets of rows.  Spec runs every handler as one        *)
(* atomic request; SpecConc runs create/update/delete one awaited database *)
(* statement at a time on two concurrent requests.                         *)
(***************************************************************************)
EXTENDS Integers, FiniteSets, Sequences, TLC

VARIABLES products, categories, http, req

vars == <<products, categories, http, req>>

\* ---- bounds -------------------------------------------------------------
MaxProducts == 2
NumCategoryIds == 2
\* rows the statement-level specification lets the table grow to
MaxConcProducts == 1

CategoryIds == 1..NumCategoryIds
ProductIds == 1..(MaxProducts + 1)
ConcProductIds == 1..(MaxConcProducts + 1)
\* The descriptive fields pass through the router untouched; one value
\* stands for them.
Names == {"a"}
Workers == {"w1", "w2"}

\* ---- schema (app.schemas / app.models, outside this file) ---------------
\* Request body of POST and PUT: the descriptive fields and category_id.
ProductCreate == [name : Names, category_id : CategoryIds]

\* Column default of Product.is_active.
DefaultIsActive == TRUE

\* Autoincrement primary key: rows are never removed, so the next key is
\* one more than the largest key handed out.
NewId(prods) == Cardinality(prods) + 1

NoBody == [name |-> "", category_id |-> 0]
NoRow == [id |-> 0, name |-> "", category_id |-> 0, is_active |-> FALSE]

HTTP_200_OK == 200
HTTP_201_CREATED == 201
HTTP_400_BAD_REQUEST == 400
HTTP_404_NOT_FOUND == 404

\* ---- statements ---------------------------------------------------------
SelectProduct_NoActiveFilter(prods, product_id) ==
    {p \in prods : p.id = product_id}

\* select(ProductModel).where(id == product_id, is_active == True)
SelectProduct(prods, product_id) ==
    {p \in prods : p.id = product_id /\ p.is_active}

SelectCategory_NoActiveFilter(cats, category_id) ==
    {c \in cats : c.id = category_id}

\* select(CategoryModel).where(id == category_id, is_active == True)
SelectCategory(cats, category_id) ==
    {c \in cats : c.id = category_id /\ c.is_active}

\* select(ProductModel).where(is_active == True)
SelectActiveProducts(prods) == {p \in prods : p.is_active}

\* select(ProductModel).where(category_id == category_id, is_active == True)
SelectProductsOfCategory(prods, category_id) ==
    {p \in prods : p.category_id = category_id /\ p.is_active}

\* .first() of a result holding at most one row (id is the primary key)
First(rows) == CHOOSE r \in rows : TRUE

\* update(ProductModel).where(id == product_id).values(**product.model_dump())
UpdateValues(prods, product_id, product) ==
    {IF p.id = product_id
        THEN [p EXCEPT !.name = product.name,
                       !.category_id = product.category_id]
        ELSE p : p \in prods}

MarkInactive_Remove(prods, product_id) ==
    {p \in prods : p.id # product_id}

\* update(ProductModel).where(id == product_id).values(is_active=False)
MarkInactive(prods, product_id) ==
    {IF p.id = product_id THEN [p EXCEPT !.is_active = FALSE] ELSE p
        : p \in prods}

\* db_product after the ORM-enabled UPDATE has synchronised the session: the
\* loaded object takes the new values and keeps what it had otherwise.
Synchronized(row, product) ==
    [row EXCEPT !.name = product.name, !.category_id = product.category_id]

\* ProductModel(**product.model_dump()) as stored by the commit
NewProduct(prods, product) ==
    [id |-> NewId(prods), name |-> product.name,
     category_id |-> product.category_id, is_active |-> DefaultIsActive]

\* What the client of the last request sent and received.  seq alternates
\* so that two successive requests with the same answer are two exchanges.
Response(op, path_id, product, status, body) ==
    [seq |-> 1 - http.seq, op |-> op, path_id |-> path_id,
     product |-> product, status |-> status, body |-> body]

Idle == [pc |-> "idle", product_id |-> 0, product |-> NoBody,
         db_product |-> NoRow]

\* ---- initial state ------------------------------------------------------
\* The category table is filled by the categories router; any set of
\* categories, active or not, may be there when the first product request
\* arrives.  No product exists yet.
CategoryTables ==
    UNION {{{[id |-> c, is_active |-> f[c]] : c \in S} : f \in [S -> BOOLEAN]}
              : S \in SUBSET CategoryIds}

Init ==
    /\ products = {}
    /\ categories \in CategoryTables
    /\ http = [seq |-> 0, op |-> "none", path_id |-> 0, product |-> NoBody,
               status |-> 0, body |-> {}]
    /\ req = [w \in Workers |-> Idle]

\* ---- handlers, one request at a time ------------------------------------
get_all_products ==
    /\ http' = Response("get_all_products", 0, NoBody, HTTP_200_OK,
                        SelectActiveProducts(products))
    /\ UNCHANGED <<products, categories, req>>

create_product_NoCategoryCheck(product) ==
    /\ Cardinality(products) < MaxProducts
    /\ products' = products \cup {NewProduct(products, product)}
    /\ http' = Response("create_product", 0, product, HTTP_201_CREATED,
                        {NewProduct(products, product)})
    /\ UNCHANGED <<categories, req>>

create_product_NoAdd(product) ==
    LET db_category == SelectCategory(categories, product.category_id)
        db_product == NewProduct(products, product)
    IN  IF db_category = {}
          THEN /\ http' = Response("create_product", 0, product,
                                   HTTP_400_BAD_REQUEST, {})
               /\ UNCHANGED <<products, categories, req>>
          ELSE /\ Cardinality(products) < MaxProducts
               /\ http' = Response("create_product", 0, product,
                                   HTTP_201_CREATED, {db_product})
               /\ UNCHANGED <<products, categories, req>>

create_product(product) ==
    LET db_category == SelectCategory(categories, product.category_id)
        db_product == NewProduct(products, product)
    IN  IF db_category = {}
          THEN /\ http' = Response("create_product", 0, product,
                                   HTTP_400_BAD_REQUEST, {})
               /\ UNCHANGED <<products, categories, req>>
          ELSE /\ Cardinality(products) < MaxProducts
               /\ products' = products \cup {db_product}
               /\ http' = Response("create_product", 0, product,
                                   HTTP_201_CREATED, {db_product})
               /\ UNCHANGED <<categories, req>>

get_products_by_category(category_id) ==
    LET db_category == SelectCategory(categories, category_id)
    IN  /\ IF db_category = {}
             THEN http' = Response("get_products_by_category", category_id,
                                   NoBody, HTTP_404_NOT_FOUND, {})
             ELSE http' = Response("get_products_by_category", category_id,
                                   NoBody, HTTP_200_OK,
                                   SelectProductsOfCategory(products,
                                                            category_id))
        /\ UNCHANGED <<products, categories, req>>

get_product(product_id) ==
    LET db_product == SelectProduct(products, product_id)
    IN  /\ IF db_product = {}
             THEN http' = Response("get_product", product_id, NoBody,
                                   HTTP_404_NOT_FOUND, {})
             ELSE IF SelectCategory(categories,
                                    First(db_product).category_id) = {}
               THEN http' = Response("get_product", product_id, NoBody,
                                     HTTP_400_BAD_REQUEST, {})
               ELSE http' = Response("get_product", product_id, NoBody,
                                     HTTP_200_OK, db_product)
        /\ UNCHANGED <<products, categories, req>>

update_product_NoCategoryCheck(product_id, product) ==
    LET db_product == SelectProduct(products, product_id)
    IN  IF db_product = {}
          THEN /\ http' = Response("update_product", product_id, product,
                                   HTTP_404_NOT_FOUND, {})
               /\ UNCHANGED <<products, categories, req>>
          ELSE /\ products' = UpdateValues(products, product_id, product)
               /\ http' = Response("update_product", product_id, product,
                                   HTTP_200_OK,
                                   {Synchronized(First(db_product), product)})
               /\ UNCHANGED <<categories, req>>

update_product(product_id, product) ==
    LET db_product == SelectProduct(products, product_id)
    IN  IF db_product = {}
          THEN /\ http' = Response("update_product", product_id, product,
                                   HTTP_404_NOT_FOUND, {})
               /\ UNCHANGED <<products, categories, req>>
          ELSE IF SelectCategory(categories,
                                 First(db_product).category_id) = {}
            THEN /\ http' = Response("update_product", product_id, product,
                                     HTTP_400_BAD_REQUEST, {})
                 /\ UNCHANGED <<products, categories, req>>
            ELSE /\ products' = UpdateValues(products, product_id, product)
                 /\ http' = Response("update_product", product_id, product,
                                     HTTP_200_OK,
                                     {Synchronized(First(db_product),
                                                   product)})
                 /\ UNCHANGED <<categories, req>>

delete_product_NoActiveFilter(product_id) ==
    LET db_product == SelectProduct_NoActiveFilter(products, product_id)
    IN  IF db_product = {}
          THEN /\ http' = Response("delete_product", product_id, NoBody,
                                   HTTP_404_NOT_FOUND, {})
               /\ UNCHANGED <<products, categories, req>>
          ELSE /\ products' = MarkInactive(products, product_id)
               /\ http' = Response("delete_product", product_id, NoBody,
                                   HTTP_200_OK, {})
               /\ UNCHANGED <<categories, req>>

delete_product(product_id) ==
    LET db_product == SelectProduct(products, product_id)
    IN  IF db_product = {}
          THEN /\ http' = Response("delete_product", product_id, NoBody,
                                   HTTP_404_NOT_FOUND, {})
               /\ UNCHANGED <<products, categories, req>>
          ELSE /\ products' = MarkInactive(products, product_id)
               /\ http' = Response("delete_product", product_id, NoBody,
                                   HTTP_200_OK, {})
               /\ UNCHANGED <<categories, req>>

\* Soft delete of a category by the categories router: the flag flips and
\* nothing cascades to the products.
deactivate_category(category_id) ==
    /\ \E c \in categories : c.id = category_id
    /\ categories' = {IF c.id = category_id
                         THEN [c EXCEPT !.is_active = FALSE] ELSE c
                         : c \in categories}
    /\ http' = Response("deactivate_category", category_id, NoBody,
                        HTTP_200_OK, {})
    /\ UNCHANGED <<products, req>>

Next ==
    \/ get_all_products
    \/ \E product \in ProductCreate : create_product(product)
    \/ \E category_id \in CategoryIds : get_products_by_category(category_id)
    \/ \E product_id \in ProductIds : get_product(product_id)
    \/ \E product_id \in ProductIds, product \in ProductCreate :
          update_product(product_id, product)
    \/ \E product_id \in ProductIds : delete_product(product_id)
    \/ \E category_id \in CategoryIds : deactivate_category(category_id)

Spec == Init /\ [][Next]_vars

\* ---- properties of the sequential service -------------------------------

\* C1: a product with is_active = false is in no list response and
\* get_product on its id answers 404 with no body.
C1_InactiveHidden ==
    \A p \in products : ~p.is_active =>
        /\ http.op \in {"get_all_products", "get_products_by_category"}
              => \A r \in http.body : r.id # p.id
        /\ (http.op = "get_product" /\ http.path_id = p.id)
              => (http.status = 404 /\ http.body = {})

C1_Witness ==
    \E p \in products :
        /\ ~p.is_active
        /\ http.op = "get_product" /\ http.path_id = p.id
        /\ http.status = 404

\* C2 as stated: every product in a response of get_all_products,
\* get_products_by_category or get_product is active and references an
\* existing active category.
C2_VisibleOnlyWithActiveCategory ==
    http.op \in {"get_all_products", "get_products_by_category",
                 "get_product"}
        => \A r \in http.body :
              /\ r.is_active
              /\ \E c \in categories : c.id = r.category_id /\ c.is_active

\* C2 amended: every product in a response of get_products_by_category or
\* get_product is active and references an existing active category; every
\* product in a response of get_all_products is an active row, whatever the
\* state of its category.
C2_Amended ==
    /\ http.op \in {"get_products_by_category", "get_product"}
          => \A r \in http.body :
                /\ r \in products /\ r.is_active
                /\ \E c \in categories :
                      c.id = r.category_id /\ c.is_active
    /\ http.op = "get_all_products"
          => \A r \in http.body : r \in products /\ r.is_active

C2_Witness ==
    /\ http.op = "get_product" /\ http.status = 200 /\ http.body # {}
    /\ \E c \in categories : ~c.is_active
    /\ \E p \in products :
          p.is_active /\ \A c \in categories :
                            c.id = p.category_id => ~c.is_active

\* C3 as stated: delete_product on an active product whose category is
\* missing or inactive answers 400 and leaves the row active; the flag is
\* flipped only when product and category are both active.
C3_DeleteChecksCategory ==
    [][\A p \in products :
          (http'.op = "delete_product" /\ http'.path_id = p.id
             /\ p.is_active)
          => IF \E c \in categories : c.id = p.category_id /\ c.is_active
               THEN [p EXCEPT !.is_active = FALSE] \in products'
               ELSE http'.status = 400 /\ p \in products']_vars

\* C4: create_product naming a missing or inactive category answers 400 and
\* writes nothing.
C4_CreateRejectsBadCategory ==
    [][(http'.op = "create_product"
          /\ ~\E c \in categories :
                c.id = http'.product.category_id /\ c.is_active)
       => (http'.status = 400 /\ products' = products
             /\ categories' = categories)]_vars

C4_Witness ==
    /\ http.op = "create_product" /\ http.status = 400
    /\ products # {}

\* C5: create_product naming an existing active category answers 201 and
\* adds exactly one row, with an id no row has, is_active = true and the
\* requested category_id; every other row is unchanged.
C5_CreateAddsFreshActiveRow ==
    [][(http'.op = "create_product"
          /\ \E c \in categories :
                c.id = http'.product.category_id /\ c.is_active)
       => /\ http'.status = 201
          /\ categories' = categories
          /\ \E row \in products' :
                /\ products' = products \cup {row}
                /\ \A p \in products : p.id # row.id
                /\ row.is_active
                /\ row.category_id = http'.product.category_id
                /\ row.name = http'.product.name
                /\ http'.body = {row}]_vars

C5_Witness ==
    /\ http.op = "create_product" /\ http.status = 201
    /\ Cardinality(products) = 2
    /\ \E p \in products : ~p.is_active

\* C6: delete_product on a product that passes the active check answers
\* 200 and only flips that row's is_active; a delete_product on the same id
\* as the very next request answers 404 and changes nothing.
C6_DeleteNotIdempotent ==
    [][/\ \A p \in products :
             (http'.op = "delete_product" /\ http'.path_id = p.id
                /\ p.is_active)
             => /\ http'.status = 200
                /\ products' = (products \ {p})
                                 \cup {[p EXCEPT !.is_active = FALSE]}
                /\ categories' = categories
       /\ (http.op = "delete_product" /\ http.status = 200
             /\ http'.op = "delete_product"
             /\ http'.path_id = http.path_id)
          => (http'.status = 404 /\ products' = products
                /\ categories' = categories)]_vars

C6_Witness ==
    /\ http.op = "delete_product" /\ http.status = 404
    /\ \E p \in products : p.id = http.path_id /\ ~p.is_active

\* C7: on an active product whose category is missing or inactive,
\* get_product and update_product answer 400 and the row is unchanged; on a
\* missing or inactive product they answer 404 whatever the categories are.
C7_CategoryFailureIs400 ==
    [][http'.op \in {"get_product", "update_product"}
       => IF \E p \in products : p.id = http'.path_id /\ p.is_active
            THEN \A p \in products :
                    (p.id = http'.path_id
                       /\ ~\E c \in categories :
                             c.id = p.category_id /\ c.is_active)
                    => (http'.status = 400 /\ http'.body = {}
                          /\ products' = products)
            ELSE http'.status = 404 /\ http'.body = {}
                   /\ products' = products]_vars

C7_Witness ==
    /\ http.op = "update_product" /\ http.status = 400
    /\ \E p \in products :
          /\ p.id = http.path_id /\ p.is_active
          /\ ~\E c \in categories : c.id = p.category_id

\* C8: a row that exists keeps existing under the same id, and once its
\* is_active is false it stays false.
C8_OneWayLifecycle ==
    [][\A p \in products :
          \E q \in products' :
             q.id = p.id /\ (~p.is_active => ~q.is_active)]_vars

C8_Witness ==
    /\ http.op = "update_product" /\ http.status = 404
    /\ \E p \in products : p.id = http.path_id /\ ~p.is_active

\* C9 as stated: update_product on an active product with an active current
\* category answers 200 and stores the input, category_id included, leaving
\* the row active; and once a row references a category that does not exist
\* (only such an update can make it so), every later get_product and
\* update_product on it answers 400.
C9_UpdateKeepsFailingWith400 ==
    [][\A p \in products :
          /\ (http'.op = "update_product" /\ http'.path_id = p.id
                /\ p.is_active
                /\ \E c \in categories :
                      c.id = p.category_id /\ c.is_active)
             => /\ http'.status = 200
                /\ products' = (products \ {p})
                     \cup {[p EXCEPT !.name = http'.product.name,
                              !.category_id = http'.product.category_id]}
          /\ (http'.op \in {"get_product", "update_product"}
                /\ http'.path_id = p.id
                /\ ~\E c \in categories : c.id = p.category_id)
             => http'.status = 400]_vars

\* ---- handlers, one awaited statement at a time --------------------------
\* A request occupies a worker from its first statement to its response.
\* Reads see committed rows only; a row written by db.execute stays locked
\* for other writers until the writer's db.commit publishes it.
RowLocked(w, product_id) ==
    \E v \in Workers \ {w} :
        /\ req[v].pc \in {"update_commit", "delete_commit"}
        /\ req[v].product_id = product_id

Creating == {w \in Workers : req[w].pc = "create_commit"}

create_select_category(w, product) ==
    /\ req[w].pc = "idle"
    /\ IF SelectCategory(categories, product.category_id) = {}
         THEN /\ http' = Response("create_product", 0, product,
                                  HTTP_400_BAD_REQUEST, {})
              /\ UNCHANGED req
         ELSE /\ Cardinality(products) + Cardinality(Creating)
                    < MaxConcProducts
              /\ req' = [req EXCEPT ![w] = [pc |-> "create_commit",
                                            product_id |-> 0,
                                            product |-> product,
                                            db_product |-> NoRow]]
              /\ UNCHANGED http
    /\ UNCHANGED <<products, categories>>

create_commit(w) ==
    /\ req[w].pc = "create_commit"
    /\ products' = products \cup {NewProduct(products, req[w].product)}
    /\ http' = Response("create_product", 0, req[w].product,
                        HTTP_201_CREATED,
                        {NewProduct(products, req[w].product)})
    /\ req' = [req EXCEPT ![w] = Idle]
    /\ UNCHANGED categories

update_select_product(w, product_id, product) ==
    /\ req[w].pc = "idle"
    /\ IF SelectProduct(products, product_id) = {}
         THEN /\ http' = Response("update_product", product_id, product,
                                  HTTP_404_NOT_FOUND, {})
              /\ UNCHANGED req
         ELSE /\ req' = [req EXCEPT ![w] =
                           [pc |-> "update_select_category",
                            product_id |-> product_id,
                            product |-> product,
                            db_product |->
                               First(SelectProduct(products, product_id))]]
              /\ UNCHANGED http
    /\ UNCHANGED <<products, categories>>

update_select_category(w) ==
    /\ req[w].pc = "update_select_category"
    /\ IF SelectCategory(categories, req[w].db_product.category_id) = {}
         THEN /\ http' = Response("update_product", req[w].product_id,
                                  req[w].product, HTTP_400_BAD_REQUEST, {})
              /\ req' = [req EXCEPT ![w] = Idle]
         ELSE /\ req' = [req EXCEPT ![w].pc = "update_execute"]
              /\ UNCHANGED http
    /\ UNCHANGED <<products, categories>>

update_execute(w) ==
    /\ req[w].pc = "update_execute"
    /\ ~RowLocked(w, req[w].product_id)
    /\ req' = [req EXCEPT ![w].pc = "update_commit"]
    /\ UNCHANGED <<products, categories, http>>

update_commit(w) ==
    /\ req[w].pc = "update_commit"
    /\ products' = UpdateValues(products, req[w].product_id, req[w].product)
    /\ http' = Response("update_product", req[w].product_id, req[w].product,
                        HTTP_200_OK,
                        {Synchronized(req[w].db_product, req[w].product)})
    /\ req' = [req EXCEPT ![w] = Idle]
    /\ UNCHANGED categories

delete_select_product(w, product_id) ==
    /\ req[w].pc = "idle"
    /\ IF SelectProduct(products, product_id) = {}
         THEN /\ http' = Response("delete_product", product_id, NoBody,
                                  HTTP_404_NOT_FOUND, {})
              /\ UNCHANGED req
         ELSE /\ req' = [req EXCEPT ![w] =
                           [pc |-> "delete_execute",
                            product_id |-> product_id,
                            product |-> NoBody,
                            db_product |->
                               First(SelectProduct(products, product_id))]]
              /\ UNCHANGED http
    /\ UNCHANGED <<products, categories>>

delete_execute(w) ==
    /\ req[w].pc = "delete_execute"
    /\ ~RowLocked(w, req[w].product_id)
    /\ req' = [req EXCEPT ![w].pc = "delete_commit"]
    /\ UNCHANGED <<products, categories, http>>

delete_commit(w) ==
    /\ req[w].pc = "delete_commit"
    /\ products' = MarkInactive(products, req[w].product_id)
    /\ http' = Response("delete_product", req[w].product_id, NoBody,
                        HTTP_200_OK, {})
    /\ req' = [req EXCEPT ![w] = Idle]
    /\ UNCHANGED categories

NextConc ==
    \/ \E w \in Workers, product \in ProductCreate :
          create_select_category(w, product)
    \/ \E w \in Workers : create_commit(w)
    \/ \E w \in Workers, product_id \in ConcProductIds,
          product \in ProductCreate :
          update_select_product(w, product_id, product)
    \/ \E w \in Workers : update_select_category(w)
    \/ \E w \in Workers : update_execute(w)
    \/ \E w \in Workers : update_commit(w)
    \/ \E w \in Workers, product_id \in ConcProductIds :
          delete_select_product(w, product_id)
    \/ \E w \in Workers : delete_execute(w)
    \/ \E w \in Workers : delete_commit(w)
    \/ \E category_id \in CategoryIds : deactivate_category(category_id)

SpecConc == Init /\ [][NextConc]_vars

\* C10 as stated: the commit of an update_product never changes a row that
\* is inactive at that moment, also when a delete_product on the same id
\* ran between the update's checks and its write.
C10_UpdateNeverWritesInactiveRow ==
    [][\A w \in Workers :
          (req[w].pc = "update_commit" /\ req'[w].pc = "idle")
          => \A p \in products :
                (p.id = req[w].product_id /\ ~p.is_active)
                => p \in products']_vars

====
